---- MODULE Spec2Model ----
(***************************************************************************)
(* Model of the web-search variant of the retrieval-synthesis pipeline:    *)
(*   src/src/lib/search.ts                 searchWeb                       *)
(*   src/src/lib/openrouter.ts             OpenRouterClient, singleton     *)
(*   src/src/app/api/synthesize/route.ts   POST /api/synthesize            *)
(*   src/src/components/SearchInterface.tsx  handleSearch                  *)
(*                                                                         *)
(* A JavaScript string is a sequence of tokens (a token stands for a run   *)
(* of characters that no operation of the program splits).  An optional    *)
(* value (T | null) is a sequence of length at most one.                   *)
(***************************************************************************)
EXTENDS Integers, Sequences, FiniteSets, TLC

(* ------------------------------- bounds -------------------------------- *)

\* longest question, in tokens, typed into the search box or posted
MaxQueryLen == 1

(* ------------------------- JavaScript strings -------------------------- *)

None == <<>>
Some(x) == <<x>>

\* a lone UTF-16 surrogate: a legal JavaScript string that is no legal UTF-16
Surrogate == "\\uD800"

\* the characters of a question
QueryAlphabet ==
  {"Climate Change", "artificial intelligence", " ", "why", Surrogate}

\* the question of demo.js: 'What is artificial intelligence?'
DemoQuery == <<"What is ", "artificial intelligence", "?">>

\* three longer questions: the demo's, both keywords with the later table
\* entry mentioned first, and a question with inner whitespace and no keyword
LongQueries ==
  {DemoQuery,
   <<"artificial intelligence", " ", "Climate Change">>,
   <<"why", " ", "why">>}

Queries == UNION {[1..n -> QueryAlphabet] : n \in 0..MaxQueryLen} \cup LongQueries

\* String.prototype.toLowerCase, per token
LowerToken(c) ==
  IF c = "Climate Change" THEN "climate change"
  ELSE IF c = "What is " THEN "what is "
  ELSE c

ToLowerCase(s) == [i \in 1..Len(s) |-> LowerToken(s[i])]

\* String.prototype.includes
Includes(s, sub) ==
  \E i \in 0..(Len(s) - Len(sub)) : \A j \in 1..Len(sub) : s[i + j] = sub[j]

IsSpace(c) == c = " "

RECURSIVE TrimStart(_)
TrimStart(s) == IF s # <<>> /\ IsSpace(Head(s)) THEN TrimStart(Tail(s)) ELSE s

RECURSIVE TrimEnd(_)
TrimEnd(s) ==
  IF s # <<>> /\ IsSpace(s[Len(s)]) THEN TrimEnd(SubSeq(s, 1, Len(s) - 1)) ELSE s

\* String.prototype.trim
Trim(s) == TrimEnd(TrimStart(s))

\* encodeURIComponent throws URIError on a lone surrogate
EncodeThrows(s) == \E i \in 1..Len(s) : s[i] = Surrogate

EncodeToken(c) ==
  IF IsSpace(c) THEN "%20"
  ELSE IF c = "What is " THEN "What%20is%20"
  ELSE IF c = "?" THEN "%3F"
  ELSE c

\* encodeURIComponent, where it does not throw
EncodeURIComponent(s) == [i \in 1..Len(s) |-> EncodeToken(s[i])]

\* query.replace(/\s+/g, '-'): every maximal run of whitespace becomes one '-'
RECURSIVE ReplaceSpaces(_)
ReplaceSpaces(s) ==
  IF s = <<>> THEN <<>>
  ELSE IF IsSpace(Head(s)) THEN <<"-">> \o ReplaceSpaces(TrimStart(s))
  ELSE <<Head(s)>> \o ReplaceSpaces(Tail(s))

(* ------------------------------ search.ts ------------------------------ *)

\* slice(0, 10)
ResultLimit == 10

ClimateResults ==
  << [title   |-> <<"Climate Change Evidence and Impacts | NASA">>,
      url     |-> <<"https://climate.nasa.gov/effects/">>,
      snippet |-> <<"Climate change is causing measurable changes to Earth's systems.",
                    " Scientists have been tracking these changes for decades, documenting rising temperatures, melting ice sheets, and changing precipitation patterns.">>,
      domain  |-> <<"climate.nasa.gov">>],
     [title   |-> <<"What is Climate Change? | United Nations">>,
      url     |-> <<"https://www.un.org/en/climatechange/what-is-climate-change">>,
      snippet |-> <<"Climate change refers to long-term shifts in temperatures and weather patterns.",
                    " While climate changes may be natural, since the 1800s, human activities have been the main driver of climate change.">>,
      domain  |-> <<"un.org">>],
     [title   |-> <<"Climate Change Impacts | EPA">>,
      url     |-> <<"https://www.epa.gov/climate-impacts">>,
      snippet |-> <<"Climate change impacts human health and wellbeing through more extreme weather events and wildfires,",
                    " decreased air quality, and diseases transmitted by insects, food, and water.">>,
      domain  |-> <<"epa.gov">>] >>

\* mutant: the two results of the second group change places
AIResults_Swapped ==
  << [title   |-> <<"Artificial Intelligence | Stanford HAI">>,
      url     |-> <<"https://hai.stanford.edu/what-ai">>,
      snippet |-> <<"AI is a broad field of computer science concerned with building smart machines",
                    " capable of performing tasks that typically require human intelligence.">>,
      domain  |-> <<"stanford.edu">>],
     [title   |-> <<"What is Artificial Intelligence (AI)? | IBM">>,
      url     |-> <<"https://www.ibm.com/topics/artificial-intelligence">>,
      snippet |-> <<"Artificial intelligence leverages computers and machines to mimic",
                    " the problem-solving and decision-making capabilities of the human mind.">>,
      domain  |-> <<"ibm.com">>] >>

AIResults ==
  << [title   |-> <<"What is Artificial Intelligence (AI)? | IBM">>,
      url     |-> <<"https://www.ibm.com/topics/artificial-intelligence">>,
      snippet |-> <<"Artificial intelligence leverages computers and machines to mimic",
                    " the problem-solving and decision-making capabilities of the human mind.">>,
      domain  |-> <<"ibm.com">>],
     [title   |-> <<"Artificial Intelligence | Stanford HAI">>,
      url     |-> <<"https://hai.stanford.edu/what-ai">>,
      snippet |-> <<"AI is a broad field of computer science concerned with building smart machines",
                    " capable of performing tasks that typically require human intelligence.">>,
      domain  |-> <<"stanford.edu">>] >>

\* Object.entries(mockSearchResults), in insertion order
mockSearchResults ==
  << [keyword |-> <<"climate change">>, results |-> ClimateResults],
     [keyword |-> <<"artificial intelligence">>, results |-> AIResults] >>

\* the module-level object mockSearchResults as it is now: a const binding of a
\* mutable object, which every searchWeb call reads
VARIABLE snippetStore

\* mutant: a later match is put in front of the earlier ones
RECURSIVE KeywordMatches_Prepend(_, _)
KeywordMatches_Prepend(lowercaseQuery, n) ==
  IF n = 0 THEN <<>>
  ELSE (IF Includes(lowercaseQuery, snippetStore[n].keyword)
          THEN snippetStore[n].results ELSE <<>>)
       \o KeywordMatches_Prepend(lowercaseQuery, n - 1)

\* the for loop of searchWeb over the first n entries of the table
RECURSIVE KeywordMatches(_, _)
KeywordMatches(lowercaseQuery, n) ==
  IF n = 0 THEN <<>>
  ELSE KeywordMatches(lowercaseQuery, n - 1) \o
       (IF Includes(lowercaseQuery, snippetStore[n].keyword)
          THEN snippetStore[n].results ELSE <<>>)

\* mutant: the matching groups are reversed in place
StoreAfterSearch_ReversesMatched(store, query) ==
  [n \in 1..Len(store) |->
     IF Includes(ToLowerCase(query), store[n].keyword)
       THEN [store[n] EXCEPT !.results =
               [k \in 1..Len(@) |-> @[Len(@) + 1 - k]]]
       ELSE store[n]]

\* what searchWeb leaves in the table: it only reads it ([...results,
\* ...mockResults] and slice build new arrays)
StoreAfterSearch(store, query) == store

\* the two generic results built from the question
GenericResults(query) ==
  << [title   |-> <<"Search Results for \"">> \o query \o <<"\"">>,
      url     |-> <<"https://example.com/search?q=">> \o EncodeURIComponent(query),
      snippet |-> <<"This is a simulated search result for the query \"">> \o query
                    \o <<"\". In a real implementation, this would be replaced with actual web search results from APIs like Brave Search or SerpAPI.">>,
      domain  |-> <<"example.com">>],
     [title   |-> query \o <<" - Research and Analysis">>,
      url     |-> <<"https://research.example.com/">> \o ReplaceSpaces(query),
      snippet |-> <<"Comprehensive research and analysis on ">> \o query
                    \o <<". This mock result demonstrates how search results would be displayed in the application.">>,
      domain  |-> <<"research.example.com">>] >>

Min(a, b) == IF a < b THEN a ELSE b

\* mutant: the slice starts after the first element
Slice_SkipsFirst(s, n) == SubSeq(s, 2, IF n < Len(s) THEN n ELSE Len(s))

\* Array.prototype.slice(0, n)
Slice(s, n) == SubSeq(s, 1, Min(n, Len(s)))

\* mutant: the results are counted after the slice
SearchWebReturn_CountsAfterSlice(results) ==
  [threw |-> FALSE, message |-> <<>>,
   results |-> Slice(results, ResultLimit),
   totalResults |-> Len(Slice(results, ResultLimit)), array |-> "new"]

\* return { results: results.slice(0, 10), totalResults: results.length }
\* array: the array object returned, "new" for one this call has built
SearchWebReturn(results) ==
  [threw |-> FALSE, message |-> <<>>,
   results |-> Slice(results, ResultLimit),
   totalResults |-> Len(results), array |-> "new"]

\* searchWeb(query): what the promise settles to
searchWeb(query) ==
  LET matched == KeywordMatches(ToLowerCase(query), Len(snippetStore))
  IN  IF matched = <<>> /\ EncodeThrows(query)
        THEN [threw |-> TRUE, message |-> <<"URI malformed">>,
              results |-> <<>>, totalResults |-> 0, array |-> "none"]
        ELSE SearchWebReturn(IF matched = <<>> THEN GenericResults(query) ELSE matched)

(* -------------------------- JavaScript values -------------------------- *)

\* a JSON/JavaScript value: its type tag and, for a string or an array, its content
Undefined == [t |-> "undefined", v |-> <<>>]
Str(s) == [t |-> "string", v |-> s]
Arr(l) == [t |-> "array", v |-> l]

\* ToBoolean: undefined and '' are falsy; every array (also []) is truthy
Truthy(x) == x.t = "array" \/ (x.t = "string" /\ x.v # <<>>)

\* JSON.parse(JSON.stringify(x)) of an object's property: an undefined property is
\* dropped and reads back as undefined; strings and arrays of plain objects
\* come back with the same content in the same order
JSONProperty(x) ==
  IF x.t = "undefined" THEN Undefined
  ELSE IF x.t = "string" THEN Str([i \in 1..Len(x.v) |-> x.v[i]])
  ELSE Arr([i \in 1..Len(x.v) |-> x.v[i]])

\* a thrown Error
Thrown(message) == [threw |-> TRUE, message |-> message, content |-> Undefined]
Returned(content) == [threw |-> FALSE, message |-> <<>>, content |-> content]

(* ---------------------------- openrouter.ts ---------------------------- *)

systemPrompt ==
  <<"You are an AI research assistant that synthesizes information from web search results to provide comprehensive, accurate answers. Your task is to:",
    "\n\n1. Analyze the provided search results",
    "\n2. Extract the most relevant and accurate information",
    "\n3. Synthesize a comprehensive answer that addresses the user's question",
    "\n4. Maintain objectivity and cite sources appropriately",
    "\n5. If there are conflicting information, mention the different perspectives",
    "\n6. Keep the response concise but thorough",
    "\n\nFormat your response in a clear, well-structured manner with proper citations using [1], [2], etc. that correspond to the source URLs provided.">>

UserPromptHead == <<"Question: ">>
UserPromptMid == <<"\n\nSearch Results:\n">>
UserPromptTail ==
  <<"\n\nPlease provide a comprehensive answer based on these search results.",
    " Include relevant citations using the format [1], [2], etc.">>

\* mutant: the text cut to its first part, as demo.js cuts it with substring
ContextEntry_Truncated(result, index) ==
  <<"[", ToString(index + 1), "] ">> \o result.title
    \o <<"\nURL: ">> \o result.url
    \o <<"\nContent: ">> \o SubSeq(result.snippet, 1, 1) \o <<"\n">>

\* `[${index + 1}] ${result.title}\nURL: ${result.url}\nContent: ${result.snippet}\n`
\* (index is the 0-based position)
ContextEntry(result, index) ==
  <<"[", ToString(index + 1), "] ">> \o result.title
    \o <<"\nURL: ">> \o result.url
    \o <<"\nContent: ">> \o result.snippet \o <<"\n">>

\* Array.prototype.join of the first n strings
RECURSIVE Join(_, _, _)
Join(strings, sep, n) ==
  IF n = 0 THEN <<>>
  ELSE IF n = 1 THEN strings[1]
  ELSE Join(strings, sep, n - 1) \o sep \o strings[n]

\* searchResults.map((result, index) => ...).join('\n')
SearchContext(searchResults) ==
  Join([i \in 1..Len(searchResults) |-> ContextEntry(searchResults[i], i - 1)],
       <<"\n">>, Len(searchResults))

\* the messages synthesizeSearchResults hands to chat
SynthesisMessages(q, searchResults) ==
  << [role |-> "system", content |-> systemPrompt],
     [role |-> "user",
      content |-> UserPromptHead \o q \o UserPromptMid
                    \o SearchContext(searchResults) \o UserPromptTail] >>

\* searchResults.map throws a TypeError when searchResults is no array
SynthesisThrowsBeforeChat(searchResults) == searchResults.t # "array"

\* what the generation backend can do with one request
\* kind: "network" (fetch rejects), "http" (a reply with a status)
\* json: whether the body parses; message: error.message of an error body;
\* choices: "undefined" | "empty" | "one"; hasMessage, content: of choices[0]
Reply(kind, status, json, message, choices, hasMessage, content) ==
  [kind |-> kind, status |-> status, json |-> json, message |-> message,
   choices |-> choices, hasMessage |-> hasMessage, content |-> content]

AnswerTexts == {<<"Answer A [1]">>, <<"Answer B [2]", "\n", "second paragraph">>}

ErrorReplies ==
  {Reply("network", 0, FALSE, Undefined, "undefined", FALSE, Undefined)}
  \cup {Reply("http", s, j, m, "undefined", FALSE, Undefined) :
          s \in {401, 503}, j \in {TRUE}, m \in {Undefined, Str(<<"upstream said no">>)}}
  \cup {Reply("http", 503, FALSE, Undefined, "undefined", FALSE, Undefined)}

OkReplies ==
  {Reply("http", 200, FALSE, Undefined, "undefined", FALSE, Undefined),
   Reply("http", 200, TRUE, Undefined, "undefined", FALSE, Undefined),
   Reply("http", 200, TRUE, Undefined, "empty", FALSE, Undefined),
   Reply("http", 200, TRUE, Undefined, "one", FALSE, Undefined),
   Reply("http", 200, TRUE, Undefined, "one", TRUE, Undefined),
   Reply("http", 200, TRUE, Undefined, "one", TRUE, Str(<<>>))}
  \cup {Reply("http", 200, TRUE, Undefined, "one", TRUE, Str(a)) : a \in AnswerTexts}

BackendReplies == ErrorReplies \cup OkReplies

\* response.ok
ReplyOk(reply) == reply.status >= 200 /\ reply.status <= 299

\* the credentials in play; the backend answers 401 to every key but the valid one
ValidKey == <<"sk-or-valid">>
RevokedKey == <<"sk-or-revoked">>

\* the value setup.sh and setup.ps1 write to .env.local, and the READMEs give
SetupKey == <<"sk-or-v1-", "f39c...: the 64 hexadecimal digits setup.sh holds">>

\* the replies the backend can give to a request carrying apiKey
RepliesFor(apiKey) ==
  IF apiKey = RevokedKey
    THEN {r \in BackendReplies : r.kind = "network" \/ r.status = 401}
    ELSE BackendReplies

\* chat(messages), from the settling of its fetch on: what the promise settles to
chat(reply) ==
  IF reply.kind = "network" THEN Thrown(<<"fetch failed">>)
  ELSE IF ~ReplyOk(reply)
    THEN Thrown(<<"OpenRouter API error: ", ToString(reply.status), " - ">>
                \o (IF reply.json /\ Truthy(reply.message)
                      THEN reply.message.v ELSE <<"Unknown error">>))
  ELSE IF ~reply.json THEN Thrown(<<"Unexpected token < in JSON at position 0">>)
  ELSE IF reply.choices # "one" THEN Thrown(<<"No response generated from the model">>)
  ELSE IF ~reply.hasMessage
    THEN Thrown(<<"Cannot read properties of undefined (reading 'content')">>)
  ELSE Returned(reply.content)

\* mutant: a failed request is sent again
ChatRefetch_RetryOnError(request, outcome) ==
  IF outcome.threw THEN Some(request) ELSE None

\* after its fetch has settled chat never issues another one: it returns or rethrows.
\* The request chat has in flight after the reply: none.
ChatRefetch(request, outcome) == None

\* synthesizeSearchResults: return response.content, or chat's error
synthesizeSearchResults(reply) == chat(reply)

\* mutant: the environment is read and a client built on every call
getOpenRouterClient_ReadsEnvEachTime(client, envKey) ==
  IF ~Truthy(envKey)
    THEN [threw |-> TRUE, message |-> <<"OpenRouter ", "API key not configured">>,
          client |-> client]
    ELSE [threw |-> FALSE, message |-> <<>>, client |-> Some(envKey.v)]

\* getOpenRouterClient: the singleton afterwards, or the throw
\* client, envKey: the module variable and process.env.OPENROUTER_API_KEY before
getOpenRouterClient(client, envKey) ==
  IF client # None THEN [threw |-> FALSE, message |-> <<>>, client |-> client]
  ELSE IF ~Truthy(envKey)
    THEN [threw |-> TRUE, message |-> <<"OpenRouter ", "API key not configured">>,
          client |-> None]
  ELSE [threw |-> FALSE, message |-> <<>>, client |-> Some(envKey.v)]

\* the credential values that files of the repository contain
CommittedCredentials == {SetupKey}

EnvKeys == {Undefined, Str(<<>>), Str(ValidKey), Str(RevokedKey), Str(SetupKey)}

(* ------------------------ api/synthesize/route.ts ----------------------- *)

\* NextResponse.json(body, {status}) as the caller reads it
\* answer: body.answer; error: body.error ('' when the body has none)
HttpResponse(origin, status, answer, error) ==
  [origin |-> origin, status |-> status, answer |-> answer, error |-> error]

\* mutant: the question is not checked
PostInvalid_QueryUnchecked(body) == ~Truthy(body.searchResults)

\* mutant: an empty list counts as missing
PostInvalid_EmptyListRejected(body) ==
  ~Truthy(body.query) \/ ~Truthy(body.searchResults) \/ body.searchResults.v = <<>>

\* if (!query || !searchResults)
PostInvalid(body) == ~Truthy(body.query) \/ ~Truthy(body.searchResults)

\* mutant: the exception leaves POST, and the framework answers 500 without a
\* JSON body
PostCatch_Rethrows(origin, message) == HttpResponse(origin, 500, Undefined, <<>>)

\* the catch block of POST: every Error becomes a 500 carrying its message
PostCatch(origin, message) ==
  IF Includes(message, <<"API key not configured">>)
    THEN HttpResponse(origin, 500, Undefined, <<"OpenRouter ", "API key not configured">>)
    ELSE HttpResponse(origin, 500, Undefined, message)

\* return NextResponse.json({ answer })
PostAnswer(origin, answer) == HttpResponse(origin, 200, JSONProperty(answer), <<>>)

\* mutant: the client is obtained before the input is checked
PostUntilChat_ClientFirst(req, client, envKey) ==
  IF req.malformed
    THEN [response |-> Some(PostCatch(req.origin, <<"Unexpected end of JSON input">>)),
          client |-> client, clientCalls |-> 0, send |-> None]
  ELSE LET got == getOpenRouterClient(client, envKey)
       IN  IF got.threw
             THEN [response |-> Some(PostCatch(req.origin, got.message)),
                   client |-> got.client, clientCalls |-> 1, send |-> None]
           ELSE IF PostInvalid(req)
             THEN [response |-> Some(HttpResponse(req.origin, 400, Undefined,
                                       <<"Query and search results are required">>)),
                   client |-> got.client, clientCalls |-> 1, send |-> None]
           ELSE IF SynthesisThrowsBeforeChat(req.searchResults)
             THEN [response |-> Some(PostCatch(req.origin,
                                               <<"searchResults.map is not a function">>)),
                   client |-> got.client, clientCalls |-> 1, send |-> None]
           ELSE [response |-> None, client |-> got.client, clientCalls |-> 1,
                 send |-> Some([apiKey |-> got.client[1],
                                messages |-> SynthesisMessages(req.query.v,
                                                               req.searchResults.v)])]

\* POST from its entry to its first await of the backend, or to its return:
\* the response it returns (if it returns), the singleton afterwards, the number
\* of getOpenRouterClient calls, and the messages it sends (if it sends)
PostUntilChat(req, client, envKey) ==
  IF req.malformed
    THEN [response |-> Some(PostCatch(req.origin, <<"Unexpected end of JSON input">>)),
          client |-> client, clientCalls |-> 0, send |-> None]
  ELSE IF PostInvalid(req)
    THEN [response |-> Some(HttpResponse(req.origin, 400, Undefined,
                                         <<"Query and search results are required">>)),
          client |-> client, clientCalls |-> 0, send |-> None]
  ELSE LET got == getOpenRouterClient(client, envKey)
       IN  IF got.threw
             THEN [response |-> Some(PostCatch(req.origin, got.message)),
                   client |-> got.client, clientCalls |-> 1, send |-> None]
           ELSE IF SynthesisThrowsBeforeChat(req.searchResults)
             THEN [response |-> Some(PostCatch(req.origin,
                                               <<"searchResults.map is not a function">>)),
                   client |-> got.client, clientCalls |-> 1, send |-> None]
           ELSE [response |-> None, client |-> got.client, clientCalls |-> 1,
                 send |-> Some([apiKey |-> got.client[1],
                                messages |-> SynthesisMessages(req.query.v,
                                                               req.searchResults.v)])]

\* mutant: the route answers 200 whatever chat did
PostAfterChat_AnswersAnyway(origin, outcome) == PostAnswer(origin, outcome.content)

\* POST from the settling of synthesizeSearchResults to its return
PostAfterChat(origin, outcome) ==
  IF outcome.threw THEN PostCatch(origin, outcome.message)
  ELSE PostAnswer(origin, outcome.content)

(* ------------------------- SearchInterface.tsx ------------------------- *)

\* if (!query.trim()) return;
HandleSearchIgnores(q) == Trim(q) = <<>>

\* mutant: only the top result is sent for synthesis
SynthesizeRequest_TopResultOnly(q, results) ==
  [origin |-> "ui", malformed |-> FALSE,
   query |-> JSONProperty(Str(q)),
   searchResults |-> JSONProperty(Arr(SubSeq(results, 1, 1)))]

\* body: JSON.stringify({ query, searchResults: searchResults.results }), as
\* request.json() reads it back
SynthesizeRequest(q, results) ==
  [origin |-> "ui", malformed |-> FALSE,
   query |-> JSONProperty(Str(q)), searchResults |-> JSONProperty(Arr(results))]

\* mutant: numbering from 0
Citation_ZeroBased(result, index) ==
  [number |-> index, title |-> result.title, url |-> result.url,
   domain |-> result.domain]

\* (result, index) => ({ number: index + 1, title, url, domain })
Citation(result, index) ==
  [number |-> index + 1, title |-> result.title, url |-> result.url,
   domain |-> result.domain]

\* searchResults.results.map(...)
Citations(results) == [i \in 1..Len(results) |-> Citation(results[i], i - 1)]

\* the citation numbers an answer text mentions
CitedNumbers(answer) ==
  IF answer.t # "string" THEN {}
  ELSE {k \in 1..ResultLimit :
          \E i \in 1..Len(answer.v) :
            answer.v[i] \in {"Answer A [" \o ToString(k) \o "]",
                             "Answer B [" \o ToString(k) \o "]"}}

\* mutant: only the sources the answer mentions are listed
SearchResponse_CitedOnly(data, results) ==
  [answer |-> data.answer,
   citations |-> SelectSeq(Citations(results),
                           LAMBDA c : c.number \in CitedNumbers(data.answer)),
   searchResults |-> results]

\* the object handed to setResponse; data is the parsed body of the reply
SearchResponse(data, results) ==
  [answer |-> data.answer, citations |-> Citations(results), searchResults |-> results]

\* throw new Error(`API error: ${apiResponse.status}`), as the catch stores it
ApiErrorMessage(status) == <<"API error: ", ToString(status)>>

\* the bodies a caller other than the page can post to /api/synthesize
DirectRequests ==
  {[origin |-> "direct", malformed |-> TRUE, query |-> Undefined,
    searchResults |-> Undefined]}
  \cup {[origin |-> "direct", malformed |-> FALSE, query |-> q, searchResults |-> r] :
          q \in {Undefined, Str(<<>>), Str(<<" ">>), Str(<<"why">>)},
          r \in {Undefined, Arr(<<>>), Arr(AIResults), Str(<<"not a list">>)}}

(* -------------------------------- state -------------------------------- *)

VARIABLES
  query, loading, response, error,   \* useState of SearchInterface
  uiPc,                              \* where handleSearch is: idle, searching, fetching
  searchResults,                     \* handleSearch's const searchResults
  apiRequest, apiResponse,           \* the HTTP exchange with /api/synthesize
  routePc,                           \* where POST is: idle, chat
  routeReq,                          \* the body POST is handling
  chatRequest,                       \* chat's fetch in flight
  openRouterClient,                  \* the module-level singleton (its apiKey)
  envKey,                            \* process.env.OPENROUTER_API_KEY
  lastSubmit,                        \* history: what the last submit of this question did
  searchWebCalls, synthFetches,      \* history: calls made by that handleSearch
  uiMessages,                        \* history: the messages behind the answer on display
  received,                          \* history: the reply handleSearch got, and its cause
  clientCalls, genRequests,          \* history: calls made by the POST under way
  sentMessages,                      \* history: the messages that POST sent
  lastReply                          \* history: the backend's reply to that POST

uiVars == <<query, loading, response, error, uiPc, searchResults>>
uiHist == <<lastSubmit, searchWebCalls, synthFetches, uiMessages, received>>
httpVars == <<apiRequest, apiResponse>>
routeVars == <<routePc, routeReq, chatRequest, openRouterClient>>
routeHist == <<clientCalls, genRequests, sentMessages, lastReply>>

vars == <<uiVars, uiHist, httpVars, routeVars, routeHist, envKey, snippetStore>>

Init ==
  /\ query = <<>> /\ loading = FALSE /\ response = None /\ error = None
  /\ uiPc = "idle" /\ searchResults = None
  /\ apiRequest = None /\ apiResponse = None
  /\ routePc = "idle" /\ routeReq = None /\ chatRequest = None
  /\ openRouterClient = None
  /\ snippetStore = mockSearchResults
  /\ envKey \in EnvKeys
  /\ lastSubmit = "none"
  /\ searchWebCalls = 0 /\ synthFetches = 0
  /\ uiMessages = None /\ received = None
  /\ clientCalls = 0 /\ genRequests = 0
  /\ sentMessages = None /\ lastReply = None

\* no HTTP exchange with the route is under way
HttpIdle == apiRequest = None /\ apiResponse = None /\ routePc = "idle"

\* the page shows neither an answer nor an error and runs no search
PageQuiet == uiPc = "idle" /\ response = None /\ error = None

\* the exchange is over: the history of the POST is dropped with it
ExchangeOver ==
  /\ apiResponse' = None /\ routeReq' = None
  /\ clientCalls' = 0 /\ genRequests' = 0
  /\ sentMessages' = None /\ lastReply' = None
  /\ UNCHANGED <<apiRequest, routePc, chatRequest, openRouterClient>>

(* ------------------------------- actions ------------------------------- *)

\* onChange of the input, which is disabled while loading
SetQuery(q) ==
  /\ ~loading /\ q # query
  /\ query' = q
  /\ lastSubmit' = "none" /\ searchWebCalls' = 0 /\ synthFetches' = 0
  /\ UNCHANGED <<loading, response, error, uiPc, searchResults>>
  /\ UNCHANGED <<uiMessages, received, httpVars, routeVars, routeHist, envKey>>
  /\ UNCHANGED snippetStore

\* handleSearch, the question empty after trim: returns at once
HandleSearchIgnored ==
  /\ uiPc = "idle" /\ HandleSearchIgnores(query)
  /\ lastSubmit' = "ignored"
  /\ searchWebCalls' = 0 /\ synthFetches' = 0
  /\ UNCHANGED <<uiMessages, received>>
  /\ UNCHANGED <<uiVars, httpVars, routeVars, routeHist, envKey>>
  /\ UNCHANGED snippetStore

\* mutant: the previous answer is left on display when a search starts
HandleSearchStart_KeepsResponse ==
  /\ uiPc = "idle" /\ ~HandleSearchIgnores(query)
  /\ loading' = TRUE /\ error' = None
  /\ uiPc' = "searching"
  /\ lastSubmit' = "accepted"
  /\ searchWebCalls' = 1 /\ synthFetches' = 0
  /\ uiMessages' = None /\ received' = None
  /\ UNCHANGED <<query, response, searchResults, httpVars, routeVars, routeHist, envKey>>
  /\ UNCHANGED snippetStore

\* handleSearch up to its await of searchWeb
HandleSearchStart ==
  /\ uiPc = "idle" /\ ~HandleSearchIgnores(query)
  /\ loading' = TRUE /\ error' = None /\ response' = None
  /\ uiPc' = "searching"
  /\ lastSubmit' = "accepted"
  /\ searchWebCalls' = 1 /\ synthFetches' = 0
  /\ uiMessages' = None /\ received' = None
  /\ UNCHANGED <<query, searchResults, httpVars, routeVars, routeHist, envKey>>
  /\ UNCHANGED snippetStore

\* searchWeb rejects: catch stores the message, finally clears loading
SearchWebThrows ==
  /\ uiPc = "searching" /\ searchWeb(query).threw
  /\ error' = Some(searchWeb(query).message)
  /\ loading' = FALSE /\ uiPc' = "idle"
  /\ UNCHANGED <<query, response, searchResults>>
  /\ UNCHANGED <<uiHist, httpVars, routeVars, routeHist, envKey>>
  /\ snippetStore' = StoreAfterSearch(snippetStore, query)

\* searchWeb resolves: handleSearch posts to /api/synthesize and awaits
SearchWebResolves ==
  /\ uiPc = "searching" /\ ~searchWeb(query).threw
  /\ HttpIdle
  /\ searchResults' = Some(searchWeb(query))
  /\ apiRequest' = Some(SynthesizeRequest(query, searchWeb(query).results))
  /\ synthFetches' = synthFetches + 1
  /\ uiPc' = "fetching"
  /\ UNCHANGED <<query, loading, response, error, apiResponse>>
  /\ UNCHANGED <<lastSubmit, searchWebCalls, uiMessages, received>>
  /\ UNCHANGED <<routeVars, routeHist, envKey>>
  /\ snippetStore' = StoreAfterSearch(snippetStore, query)

\* the page's fetch rejects (the request never reaches the route)
FetchRejects ==
  /\ uiPc = "fetching" /\ apiRequest # None /\ apiRequest[1].origin = "ui"
  /\ apiRequest' = None
  /\ error' = Some(<<"Failed to fetch">>)
  /\ loading' = FALSE /\ uiPc' = "idle"
  /\ searchResults' = None
  /\ UNCHANGED <<query, response, apiResponse>>
  /\ UNCHANGED <<uiHist, routeVars, routeHist, envKey>>
  /\ UNCHANGED snippetStore

\* mutant: the error of the reply's body is stored
HandleSearchApiError_ReadsBody ==
  /\ uiPc = "fetching" /\ apiResponse # None /\ apiResponse[1].origin = "ui"
  /\ apiResponse[1].status # 200
  /\ error' = Some(apiResponse[1].error)
  /\ loading' = FALSE /\ uiPc' = "idle"
  /\ searchResults' = None
  /\ received' = Some([reply |-> apiResponse[1], cause |-> lastReply])
  /\ ExchangeOver
  /\ UNCHANGED <<query, response, envKey>>
  /\ UNCHANGED <<lastSubmit, searchWebCalls, synthFetches, uiMessages>>
  /\ UNCHANGED snippetStore

\* mutant: loading is not cleared after a reply that is not ok
HandleSearchApiError_LeavesLoading ==
  /\ uiPc = "fetching" /\ apiResponse # None /\ apiResponse[1].origin = "ui"
  /\ apiResponse[1].status # 200
  /\ error' = Some(ApiErrorMessage(apiResponse[1].status))
  /\ uiPc' = "idle"
  /\ searchResults' = None
  /\ received' = Some([reply |-> apiResponse[1], cause |-> lastReply])
  /\ ExchangeOver
  /\ UNCHANGED <<query, loading, response, envKey>>
  /\ UNCHANGED <<lastSubmit, searchWebCalls, synthFetches, uiMessages>>
  /\ UNCHANGED snippetStore

\* the reply is not ok: throw, catch stores 'API error: <status>'
HandleSearchApiError ==
  /\ uiPc = "fetching" /\ apiResponse # None /\ apiResponse[1].origin = "ui"
  /\ apiResponse[1].status # 200
  /\ error' = Some(ApiErrorMessage(apiResponse[1].status))
  /\ loading' = FALSE /\ uiPc' = "idle"
  /\ searchResults' = None
  /\ received' = Some([reply |-> apiResponse[1], cause |-> lastReply])
  /\ ExchangeOver
  /\ UNCHANGED <<query, response, envKey>>
  /\ UNCHANGED <<lastSubmit, searchWebCalls, synthFetches, uiMessages>>
  /\ UNCHANGED snippetStore

\* the reply is ok: build the citations and set the response
HandleSearchApiOk ==
  /\ uiPc = "fetching" /\ apiResponse # None /\ apiResponse[1].origin = "ui"
  /\ apiResponse[1].status = 200
  /\ response' = Some(SearchResponse(apiResponse[1], searchResults[1].results))
  /\ loading' = FALSE /\ uiPc' = "idle"
  /\ searchResults' = None
  /\ received' = Some([reply |-> apiResponse[1], cause |-> lastReply])
  /\ uiMessages' = sentMessages
  /\ ExchangeOver
  /\ UNCHANGED <<query, error, envKey>>
  /\ UNCHANGED <<lastSubmit, searchWebCalls, synthFetches>>
  /\ UNCHANGED snippetStore

\* another client posts to /api/synthesize.  What POST does with a request does
\* not depend on what the page shows, so such posts are explored while the page
\* is quiet.
DirectPost(req) ==
  /\ HttpIdle /\ PageQuiet
  /\ apiRequest' = Some(req)
  /\ UNCHANGED <<apiResponse, uiVars, uiHist, routeVars, routeHist, envKey>>
  /\ UNCHANGED snippetStore

\* that client reads the reply
DirectReceive ==
  /\ apiResponse # None /\ apiResponse[1].origin = "direct"
  /\ ExchangeOver
  /\ UNCHANGED <<uiVars, uiHist, envKey>>
  /\ UNCHANGED snippetStore

\* POST returns before any backend request: 400, or 500 from its catch
PostReturnsEarly ==
  /\ apiRequest # None /\ routePc = "idle"
  /\ LET step == PostUntilChat(apiRequest[1], openRouterClient, envKey)
     IN  /\ step.response # None
         /\ apiResponse' = step.response
         /\ openRouterClient' = step.client
         /\ clientCalls' = step.clientCalls
  /\ routeReq' = apiRequest
  /\ apiRequest' = None
  /\ genRequests' = 0 /\ sentMessages' = None /\ lastReply' = None
  /\ UNCHANGED <<routePc, chatRequest, uiVars, uiHist, envKey>>
  /\ UNCHANGED snippetStore

\* POST gets the client, builds the prompt and awaits chat's fetch
PostSendsChat ==
  /\ apiRequest # None /\ routePc = "idle"
  /\ LET step == PostUntilChat(apiRequest[1], openRouterClient, envKey)
     IN  /\ step.response = None
         /\ chatRequest' = step.send
         /\ openRouterClient' = step.client
         /\ clientCalls' = step.clientCalls
         /\ sentMessages' = Some(step.send[1].messages)
  /\ routeReq' = apiRequest
  /\ apiRequest' = None
  /\ routePc' = "chat"
  /\ genRequests' = 1 /\ lastReply' = None
  /\ UNCHANGED <<apiResponse, uiVars, uiHist, envKey>>
  /\ UNCHANGED snippetStore

\* the backend replies (or the fetch rejects): chat, synthesizeSearchResults and
\* POST run to POST's return
ChatSettles(reply) ==
  /\ routePc = "chat" /\ chatRequest # None
  /\ reply \in RepliesFor(chatRequest[1].apiKey)
  /\ lastReply' = Some(reply)
  /\ LET outcome == synthesizeSearchResults(reply)
         again == ChatRefetch(chatRequest[1], outcome)
     IN  IF again # None
           THEN /\ chatRequest' = again
                /\ genRequests' = genRequests + 1
                /\ UNCHANGED <<routePc, apiResponse>>
           ELSE /\ chatRequest' = None
                /\ routePc' = "idle"
                /\ apiResponse' = Some(PostAfterChat(routeReq[1].origin, outcome))
                /\ UNCHANGED genRequests
  /\ UNCHANGED <<apiRequest, routeReq, openRouterClient, clientCalls, sentMessages>>
  /\ UNCHANGED <<uiVars, uiHist, envKey>>
  /\ UNCHANGED snippetStore

\* the deployment's configuration changes
ConfigureKey(k) ==
  /\ k # envKey
  /\ envKey' = k
  /\ UNCHANGED <<uiVars, uiHist, httpVars, routeVars, routeHist>>
  /\ UNCHANGED snippetStore

Next ==
  \/ \E q \in Queries : SetQuery(q)
  \/ HandleSearchIgnored
  \/ HandleSearchStart
  \/ SearchWebThrows
  \/ SearchWebResolves
  \/ FetchRejects
  \/ HandleSearchApiError
  \/ HandleSearchApiOk
  \/ \E req \in DirectRequests : DirectPost(req)
  \/ DirectReceive
  \/ PostReturnsEarly
  \/ PostSendsChat
  \/ \E reply \in BackendReplies : ChatSettles(reply)
  \/ \E k \in EnvKeys : ConfigureKey(k)

Spec == Init /\ [][Next]_vars

\* every awaited call settles and every continuation of a settled promise runs:
\* searchWeb resolves or rejects, the route runs a request it has received, the
\* backend replies or the fetch fails, and a waiting reply is read
Fairness ==
  /\ WF_vars(SearchWebThrows \/ SearchWebResolves)
  /\ WF_vars(PostReturnsEarly \/ PostSendsChat)
  /\ WF_vars(\E reply \in BackendReplies : ChatSettles(reply))
  /\ WF_vars(HandleSearchApiError \/ HandleSearchApiOk)
  /\ WF_vars(DirectReceive)

FairSpec == Spec /\ Fairness

\* the page as the only client of the route: what a search of handleSearch
\* goes through does not involve the requests of other clients
PageNext ==
  \/ \E q \in Queries : SetQuery(q)
  \/ HandleSearchIgnored
  \/ HandleSearchStart
  \/ SearchWebThrows
  \/ SearchWebResolves
  \/ FetchRejects
  \/ HandleSearchApiError
  \/ HandleSearchApiOk
  \/ PostReturnsEarly
  \/ PostSendsChat
  \/ \E reply \in BackendReplies : ChatSettles(reply)
  \/ \E k \in EnvKeys : ConfigureKey(k)

PageFairSpec == Init /\ [][PageNext]_vars /\ Fairness

(* ------------------------------- claims -------------------------------- *)

\* the position of the k-th entry label in a prompt
KthLabel(text, k) ==
  CHOOSE i \in 1..Len(text) :
    text[i] = "[" /\ Cardinality({j \in 1..i : text[j] = "["}) = k

LabelCount(text) == Cardinality({j \in 1..Len(text) : text[j] = "["})

\* text continues with part at position pos
HasAt(text, pos, part) ==
  /\ pos + Len(part) - 1 <= Len(text)
  /\ \A j \in 1..Len(part) : text[pos + j - 1] = part[j]

\* C1: within one query of the page, the numbered context sent to the backend and
\* the citation table are built from the same list in the same order: the prompt
\* has as many labelled entries as the table has citations, and the k-th entry
\* of the prompt is labelled [k] and carries the title and url of citation k.
C1_ContextAndCitationsAgree ==
  response # None =>
    /\ uiMessages # None
    /\ LET cites == response[1].citations
           prompt == uiMessages[1][2].content
       IN  /\ LabelCount(prompt) = Len(cites)
           /\ \A k \in 1..Len(cites) :
                /\ cites[k].number = k
                /\ HasAt(prompt, KthLabel(prompt, k),
                         <<"[", ToString(k), "] ">> \o cites[k].title
                           \o <<"\nURL: ">> \o cites[k].url \o <<"\nContent: ">>)

C1_Witness ==
  /\ response # None /\ uiMessages # None
  /\ Len(response[1].citations) = 3

\* C2: for the list of N >= 1 snippets that retrieval returned for the question,
\* the citation table has exactly N entries and entry k has number k and the
\* title, url and domain of the snippet at position k.
C2_CitationTableMatchesResults ==
  (response # None /\ lastSubmit = "accepted") =>
    LET results == searchWeb(query).results
        cites == response[1].citations
    IN  /\ Len(results) >= 1
        /\ Len(cites) = Len(results)
        /\ \A k \in 1..Len(results) :
             /\ cites[k].number = k
             /\ cites[k].title = results[k].title
             /\ cites[k].url = results[k].url
             /\ cites[k].domain = results[k].domain

C2_Witness ==
  /\ response # None /\ lastSubmit = "accepted"
  /\ Len(response[1].citations) = 5
  /\ response[1].citations[4].domain = <<"ibm.com">>

\* the POST under way (or just answered) was given the empty question
PostOfEmptyQuestion ==
  /\ routeReq # None /\ ~routeReq[1].malformed
  /\ routeReq[1].query.t = "string" /\ routeReq[1].query.v = <<>>

\* the empty question has been submitted on the page
SubmitOfEmptyQuestion == query = <<>> /\ lastSubmit # "none"

RouteMadeNoCall == clientCalls = 0 /\ genRequests = 0 /\ chatRequest = None

\* C3 (as amended): the empty question causes no retrieval and no generation call
\* at either entry point.  POST /api/synthesize answers it with status 400 and the
\* error 'Query and search results are required', without obtaining the client;
\* handleSearch returns at once, without calling searchWeb or /api/synthesize and
\* without starting a search.
C3_EmptyQuestionMakesNoCall ==
  /\ SubmitOfEmptyQuestion =>
       /\ lastSubmit = "ignored"
       /\ searchWebCalls = 0 /\ synthFetches = 0
       /\ uiPc = "idle" /\ ~loading
  /\ PostOfEmptyQuestion =>
       /\ apiResponse # None
       /\ apiResponse[1].status = 400
       /\ apiResponse[1].error = <<"Query and search results are required">>
       /\ RouteMadeNoCall

C3_Witness ==
  /\ SubmitOfEmptyQuestion /\ lastSubmit = "ignored"
  /\ PostOfEmptyQuestion /\ apiResponse # None

\* C3 (as claimed): the empty question is rejected with an input-validation error
\* before any retrieval or generation call, at both entry points.
C3_EmptyQuestionRejectedWithError ==
  /\ SubmitOfEmptyQuestion =>
       /\ error # None
       /\ searchWebCalls = 0 /\ synthFetches = 0
  /\ PostOfEmptyQuestion =>
       /\ apiResponse # None
       /\ apiResponse[1].status = 400
       /\ RouteMadeNoCall

\* the backend replies that are a generic network or service failure
GenericFailureReplies == {r \in BackendReplies : r.kind = "network" \/ r.status = 503}

\* the errors the page stores after a generic failure of the generation call
GenericFailureErrors ==
  {ApiErrorMessage(PostAfterChat("ui", synthesizeSearchResults(r)).status) :
     r \in GenericFailureReplies}

\* the reply the page got came from an authentication failure: the credential
\* was missing (no request was sent) or the backend rejected it (401)
AuthenticationFailure(got) ==
  \/ got.cause = None /\ got.reply.error = <<"OpenRouter ", "API key not configured">>
  \/ got.cause # None /\ got.cause[1].kind = "http" /\ got.cause[1].status = 401

\* C4: when generation fails for an authentication reason, the error the caller
\* receives is distinct from the error of every generic network or service
\* failure, and no second generation attempt is made.
C4_AuthErrorDistinctFromGeneric ==
  (error # None /\ received # None /\ AuthenticationFailure(received[1])) =>
    /\ error[1] \notin GenericFailureErrors
    /\ genRequests <= 1

\* C5: a failure of retrieval is absorbed: the query goes on to the generation
\* call and does not end in the retrieval failure's error.
C5_RetrievalFailureAbsorbed ==
  (lastSubmit = "accepted" /\ uiPc = "idle" /\ searchWeb(query).threw) =>
    /\ synthFetches = 1
    /\ error # Some(searchWeb(query).message)

\* the generation call ended in a service error, a malformed response or an
\* empty completion
GenerationFailed(r) ==
  \/ r.kind = "network" \/ ~ReplyOk(r)
  \/ ~r.json \/ r.choices = "undefined"
  \/ r.choices = "one" /\ (~r.hasMessage \/ r.content.t # "string")
  \/ r.choices = "empty"
  \/ r.choices = "one" /\ r.hasMessage /\ r.content.t = "string" /\ r.content.v = <<>>

\* C6: a generation call that ends in a service error, a malformed response or
\* an empty completion ends the query with an error: POST does not answer 200 and
\* the page does not set a response.
C6_FailedGenerationIsNeverSuccess ==
  /\ (apiResponse # None /\ lastReply # None /\ GenerationFailed(lastReply[1])) =>
       /\ apiResponse[1].status # 200
       /\ apiResponse[1].error # <<>>
  /\ (received # None /\ received[1].cause # None
        /\ GenerationFailed(received[1].cause[1])) =>
       /\ response = None
       /\ error # None

\* the POST under way (or just answered) was given a question and the empty list
PostOfEmptyList ==
  /\ routeReq # None /\ ~routeReq[1].malformed
  /\ Truthy(routeReq[1].query)
  /\ routeReq[1].searchResults.t = "array" /\ routeReq[1].searchResults.v = <<>>

\* C7: POST /api/synthesize with a non-empty question and an empty list is not
\* rejected: with a credential it performs the generation call, and when that
\* call returns, it answers 200 with the answer.
C7_EmptyListStillAnswered ==
  PostOfEmptyList =>
    /\ apiResponse # None => apiResponse[1].status # 400
    /\ clientCalls = 1
    /\ openRouterClient # None => genRequests = 1
    /\ (apiResponse # None /\ lastReply # None
          /\ ~synthesizeSearchResults(lastReply[1]).threw) =>
         /\ apiResponse[1].status = 200
         /\ apiResponse[1].answer = JSONProperty(lastReply[1].content)

C7_Witness ==
  /\ PostOfEmptyList /\ apiResponse # None /\ genRequests = 1
  /\ apiResponse[1].status = 200
  /\ apiResponse[1].answer = Str(<<"Answer A [1]">>)

\* text without the len elements from position from on
Without(text, from, len) ==
  SubSeq(text, 1, from - 1) \o SubSeq(text, from + len, Len(text))

\* the instruction of a prompt: the system message, and the user message without
\* the question q and without the context block
Instruction(messages, q, context) ==
  <<messages[1].content,
    Without(Without(messages[2].content,
                    Len(UserPromptHead) + Len(q) + Len(UserPromptMid) + 1, Len(context)),
            Len(UserPromptHead) + 1, Len(q))>>

\* C8: when the snippet list is empty, the instruction sent to the backend differs
\* from the one sent when snippets are present.
C8_EmptyListChangesInstruction ==
  (sentMessages # None /\ PostOfEmptyList) =>
    Instruction(sentMessages[1], routeReq[1].query.v, <<>>)
      # Instruction(SynthesisMessages(routeReq[1].query.v, AIResults),
                    routeReq[1].query.v, SearchContext(AIResults))

\* C9: each accepted query causes at most one request to the generation backend,
\* whether it succeeds or fails: one handleSearch posts at most once, one POST
\* sends at most one request, and none is in flight once the backend has replied.
C9_AtMostOneGenerationRequest ==
  /\ synthFetches <= 1
  /\ genRequests <= 1
  /\ chatRequest # None => genRequests = 1
  /\ lastReply # None => chatRequest = None

C9_Witness ==
  /\ genRequests = 1 /\ lastReply # None
  /\ synthesizeSearchResults(lastReply[1]).threw
  /\ apiResponse # None /\ apiResponse[1].origin = "ui" /\ synthFetches = 1

\* the context block of a sent prompt: the user message between the
\* 'Search Results:' line and the closing instruction
SentContext(messages, q) ==
  SubSeq(messages[2].content,
         Len(UserPromptHead) + Len(q) + Len(UserPromptMid) + 1,
         Len(messages[2].content) - Len(UserPromptTail))

\* entry k of a context block, as the claim describes it
ExpectedEntry(snippet, k) ==
  <<"[", ToString(k), "] ">> \o snippet.title \o <<"\nURL: ">> \o snippet.url
    \o <<"\nContent: ">> \o snippet.snippet \o <<"\n">>

RECURSIVE SumLen(_, _)
SumLen(snippets, n) ==
  IF n = 0 THEN 0 ELSE SumLen(snippets, n - 1) + Len(ExpectedEntry(snippets[n], n))

\* C10: the context block has one entry per snippet, in input order; entry k is
\* labelled [k] and holds that snippet's title, url and whole text; between the
\* entries there is only the separator.
C10_ContextBlockIsTheSnippetList ==
  (sentMessages # None /\ routeReq # None) =>
    LET snippets == routeReq[1].searchResults.v
        context == SentContext(sentMessages[1], routeReq[1].query.v)
    IN  /\ LabelCount(context) = Len(snippets)
        /\ \A k \in 1..Len(snippets) :
             HasAt(context, KthLabel(context, k), ExpectedEntry(snippets[k], k))
        /\ Len(context) = SumLen(snippets, Len(snippets))
                            + (IF Len(snippets) > 1 THEN Len(snippets) - 1 ELSE 0)

C10_Witness ==
  /\ sentMessages # None /\ routeReq # None
  /\ Len(routeReq[1].searchResults.v) = 3

(* --------------------------- claims C11 to C20 --------------------------- *)

\* the values the route can return as the answer of a 200 reply
RouteAnswers == {Undefined, Str(<<>>)} \cup {Str(a) : a \in AnswerTexts}

\* C11: the citation table is a function of the snippet list alone: for the
\* question on the page and its retrieval results, the table on display is the
\* one the page builds for every other answer text the route can return, so no
\* entry depends on what the answer says or cites.
C11_CitationsIndependentOfAnswer ==
  (response # None /\ lastSubmit = "accepted") =>
    \A a \in RouteAnswers :
      SearchResponse([answer |-> a], searchWeb(query).results).citations
        = response[1].citations

\* an answer that mentions only [2] is shown with both sources listed
C11_Witness ==
  /\ response # None /\ lastSubmit = "accepted"
  /\ response[1].answer = Str(<<"Answer B [2]", "\n", "second paragraph">>)
  /\ Len(response[1].citations) = 2

\* C12: what POST does with a request (the reply it returns at once, or the
\* generation request it sends) is what a process that has served no earlier
\* query does with the same request under the configuration of that moment.
C12_OutcomeIndependentOfEarlierQueries ==
  [][(apiRequest # None /\ routeReq' = apiRequest) =>
       LET fresh == PostUntilChat(apiRequest[1], None, envKey)
       IN  IF fresh.response # None
             THEN apiResponse' = fresh.response /\ routePc' = "idle"
             ELSE chatRequest' = fresh.send /\ routePc' = "chat"]_vars

\* every result of the table, group after group in declaration order
RECURSIVE DeclaredOrder(_)
DeclaredOrder(n) ==
  IF n = 0 THEN <<>> ELSE DeclaredOrder(n - 1) \o mockSearchResults[n].results

\* the place of a result in the declaration order, 0 for a generic result
Rank(result) ==
  LET all == DeclaredOrder(Len(mockSearchResults))
  IN  IF \E k \in 1..Len(all) : all[k] = result
        THEN CHOOSE k \in 1..Len(all) : all[k] = result
        ELSE 0

\* the keywords of the table that the question on the page mentions
Mentioned ==
  {n \in 1..Len(mockSearchResults) :
     Includes(ToLowerCase(query), mockSearchResults[n].keyword)}

\* C13: the list retrieval returns holds the results of the mentioned sources
\* in declaration order (every result of an earlier declared source before
\* every result of a later one), whatever the order of mention in the question.
C13_MergedOrderIsDeclarationOrder ==
  (searchResults # None /\ ~searchResults[1].threw /\ Mentioned # {}) =>
    LET results == searchResults[1].results
    IN  /\ \A i \in 1..Len(results) : Rank(results[i]) > 0
        /\ \A i, j \in 1..Len(results) :
             i < j => Rank(results[i]) < Rank(results[j])
        /\ \A n \in Mentioned :
             \E i \in 1..Len(results) : results[i] = mockSearchResults[n].results[1]

\* the later declared source is mentioned first, and its results come last
C13_Witness ==
  /\ searchResults # None /\ ~searchResults[1].threw
  /\ query = <<"artificial intelligence", " ", "Climate Change">>
  /\ Len(searchResults[1].results) = 5
  /\ searchResults[1].results[1].domain = <<"climate.nasa.gov">>

\* the groups of the mentioned sources, one after the other
RECURSIVE ConcatOfMentioned(_)
ConcatOfMentioned(n) ==
  IF n = 0 THEN <<>>
  ELSE ConcatOfMentioned(n - 1) \o
       (IF n \in Mentioned THEN mockSearchResults[n].results ELSE <<>>)

\* C14: the list searchWeb returns is the first min(10, n) elements of the
\* concatenation of the n results of all matching sources (of the two generic
\* results when no source matches): a prefix of it, never longer than 10.  The
\* table holds five results, so the truncation itself is exercised on the
\* slice of lists of up to twelve elements.
C14_ConcatenateThenTruncate ==
  /\ (searchResults # None /\ ~searchResults[1].threw) =>
       LET all == IF Mentioned = {} THEN GenericResults(query)
                  ELSE ConcatOfMentioned(Len(mockSearchResults))
           results == searchResults[1].results
       IN  /\ Len(results) = Min(10, Len(all))
           /\ Len(results) <= 10
           /\ \A k \in 1..Len(results) : results[k] = all[k]
  /\ \A n \in 0..12 :
       Slice([k \in 1..n |-> k], ResultLimit) = [k \in 1..Min(10, n) |-> k]

\* both sources match: five results, all returned
C14_Witness ==
  /\ searchResults # None /\ ~searchResults[1].threw
  /\ Mentioned = {1, 2}
  /\ Len(searchResults[1].results) = 5
  /\ searchResults[1].results[4].domain = <<"ibm.com">>

\* C15: the steps of a query are sequential.  While the page's request is with
\* the route or the backend, retrieval has completed and its results are held;
\* while retrieval runs, no request of the page is with the route; and a response
\* is on display only after the route replied 200 to a generation call that
\* the backend answered and chat returned from without throwing.
C15_StepsAreSequential ==
  /\ ((apiRequest # None /\ apiRequest[1].origin = "ui")
        \/ (routeReq # None /\ routeReq[1].origin = "ui")) =>
       /\ uiPc = "fetching"
       /\ searchResults # None /\ ~searchResults[1].threw
       /\ response = None
  /\ uiPc = "searching" =>
       /\ searchResults = None /\ response = None
       /\ apiRequest = None \/ apiRequest[1].origin # "ui"
       /\ routeReq = None \/ routeReq[1].origin # "ui"
       /\ apiResponse = None \/ apiResponse[1].origin # "ui"
  /\ (response # None /\ lastSubmit = "accepted") =>
       /\ uiPc = "idle"
       /\ received # None
       /\ received[1].reply.status = 200
       /\ received[1].cause # None
       /\ ~chat(received[1].cause[1]).threw

\* an answer is on display after a generation call that returned
C15_Witness ==
  /\ response # None /\ lastSubmit = "accepted" /\ received # None
  /\ received[1].cause # None
  /\ received[1].cause[1].content \in {Str(a) : a \in AnswerTexts}
  /\ searchWebCalls = 1 /\ synthFetches = 1

\* the errors the page stores when the route sent no generation request because
\* the credential is missing
NotSentErrors ==
  {ApiErrorMessage(PostCatch("ui", getOpenRouterClient(None, k).message).status) :
     k \in {k \in EnvKeys : ~Truthy(k)}}

\* C16: the error the page shows after the backend was reached and gave no
\* answer is none of the errors it shows when no generation request was sent.
C16_ReachedDistinctFromNotSent ==
  (error # None /\ received # None /\ received[1].cause # None) =>
    error[1] \notin NotSentErrors

\* C17: for the question "What is artificial intelligence?" retrieval returns
\* two snippets, the IBM one and then the Stanford HAI one; the citation table is
\* [(1, ibm.com), (2, stanford.edu)]; and the context block sent to the backend
\* has two entries, labelled [1] for the IBM snippet and [2] for the Stanford one.
C17_DemoQuestion ==
  /\ (query = DemoQuery /\ searchResults # None) =>
       /\ ~searchResults[1].threw
       /\ Len(searchResults[1].results) = 2
       /\ searchResults[1].results[1].domain = <<"ibm.com">>
       /\ searchResults[1].results[1].title
            = <<"What is Artificial Intelligence (AI)? | IBM">>
       /\ searchResults[1].results[2].domain = <<"stanford.edu">>
       /\ searchResults[1].results[2].title
            = <<"Artificial Intelligence | Stanford HAI">>
  /\ (query = DemoQuery /\ lastSubmit = "accepted" /\ response # None) =>
       /\ [k \in 1..Len(response[1].citations) |->
             <<response[1].citations[k].number, response[1].citations[k].domain>>]
            = << <<1, <<"ibm.com">> >>, <<2, <<"stanford.edu">> >> >>
       /\ uiMessages # None
       /\ LET context == SentContext(uiMessages[1], DemoQuery)
          IN  /\ LabelCount(context) = 2
              /\ HasAt(context, KthLabel(context, 1),
                       <<"[", "1", "] ", "What is Artificial Intelligence (AI)? | IBM",
                         "\nURL: ", "https://www.ibm.com/topics/artificial-intelligence">>)
              /\ HasAt(context, KthLabel(context, 2),
                       <<"[", "2", "] ", "Artificial Intelligence | Stanford HAI",
                         "\nURL: ", "https://hai.stanford.edu/what-ai">>)

\* the demo's question has been answered on the page
C17_Witness ==
  /\ query = DemoQuery /\ lastSubmit = "accepted" /\ response # None
  /\ Len(response[1].citations) = 2
  /\ uiMessages # None

\* the snippets as they were created: those of the table and the two generic
\* ones of the question on the page
CreatedSnippets ==
  {DeclaredOrder(Len(mockSearchResults))[k] :
     k \in 1..Len(DeclaredOrder(Len(mockSearchResults)))}
  \cup (IF EncodeThrows(query) THEN {}
        ELSE {GenericResults(query)[k] : k \in 1..Len(GenericResults(query))})

\* C18: the stored table is what it was at the start; every snippet that the
\* page holds, sends or displays is a snippet as it was created; and the list
\* a searchWeb call returns is a list that call has built.
C18_SnippetsAreNeverMutated ==
  /\ snippetStore = mockSearchResults
  /\ (searchResults # None /\ ~searchResults[1].threw) =>
       /\ searchResults[1].array = "new"
       /\ \A k \in 1..Len(searchResults[1].results) :
            searchResults[1].results[k] \in CreatedSnippets
  /\ (routeReq # None /\ routeReq[1].origin = "ui") =>
       \A k \in 1..Len(routeReq[1].searchResults.v) :
         routeReq[1].searchResults.v[k] \in CreatedSnippets
  /\ (response # None /\ lastSubmit = "accepted") =>
       /\ Len(response[1].searchResults) = Len(response[1].citations)
       /\ \A k \in 1..Len(response[1].searchResults) :
            response[1].searchResults[k] \in CreatedSnippets

\* a question that matches both groups has gone through the whole pipeline
C18_Witness ==
  /\ response # None /\ lastSubmit = "accepted" /\ uiMessages # None
  /\ Mentioned = {1, 2}
  /\ response[1].searchResults = ClimateResults \o AIResults

\* C19: the credential the generation client holds and sends was read from the
\* process configuration, and is no value that a file of the repository contains.
C19_CredentialOnlyFromConfiguration ==
  /\ openRouterClient # None => openRouterClient[1] \notin CommittedCredentials
  /\ chatRequest # None =>
       /\ openRouterClient # None
       /\ chatRequest[1].apiKey = openRouterClient[1]
       /\ chatRequest[1].apiKey \notin CommittedCredentials

\* a step in which POST calls getOpenRouterClient
CallsGetOpenRouterClient ==
  apiRequest # None /\ routeReq' = apiRequest /\ clientCalls' = 1

\* C20: the client is created by the first getOpenRouterClient call that finds
\* a credential, holds the credential of that moment, and is never replaced:
\* every later call uses it, whatever the configured credential is by then.  A
\* call that finds no credential ends in 'OpenRouter API key not configured' and
\* leaves no client, and a call that finds one when there is no client creates it.
C20_ClientCreatedLazilyAndOnce ==
  /\ [](chatRequest # None =>
          openRouterClient # None /\ chatRequest[1].apiKey = openRouterClient[1])
  /\ []((apiResponse # None /\ routeReq # None
           /\ apiResponse[1].error = <<"OpenRouter ", "API key not configured">>) =>
          openRouterClient = None /\ clientCalls = 1 /\ genRequests = 0)
  /\ [][/\ openRouterClient # None => openRouterClient' = openRouterClient
        /\ openRouterClient' # openRouterClient => CallsGetOpenRouterClient
        /\ (CallsGetOpenRouterClient /\ openRouterClient = None) =>
             IF Truthy(envKey)
               THEN openRouterClient' = Some(envKey.v)
               ELSE /\ openRouterClient' = None
                    /\ apiResponse' # None
                    /\ apiResponse'[1].status = 500
                    /\ apiResponse'[1].error
                         = <<"OpenRouter ", "API key not configured">>]_vars

\* the credential has been removed after the client was created, and a later
\* request is sent with the client's credential
C20_Witness ==
  /\ openRouterClient # None /\ ~Truthy(envKey)
  /\ chatRequest # None /\ chatRequest[1].apiKey = openRouterClient[1]

(* --------------------------- claims C21 to C28 --------------------------- *)

\* a request of the page is with the route or the backend, or its reply waits
PageRequestInFlight ==
  \/ apiRequest # None /\ apiRequest[1].origin = "ui"
  \/ routeReq # None /\ routeReq[1].origin = "ui"
  \/ apiResponse # None /\ apiResponse[1].origin = "ui"

\* C21: error and response are never both set; while a search is in flight
\* (loading, retrieval running, or the page's request out) neither is set; and
\* the step that starts a search clears both before retrieval has returned
\* anything and before any request of the page is sent.
C21_ErrorAndResponseExclusive ==
  /\ [](~(error # None /\ response # None))
  /\ []((loading \/ uiPc # "idle" \/ searchResults # None \/ PageRequestInFlight) =>
          (error = None /\ response = None))
  /\ [][(~loading /\ loading') =>
          /\ error' = None /\ response' = None
          /\ searchResults' = None /\ ~PageRequestInFlight'
          /\ synthFetches' = 0]_vars

\* a search is in flight with its request at the backend
C21_Witness ==
  /\ loading /\ uiPc = "fetching"
  /\ chatRequest # None /\ routeReq # None /\ routeReq[1].origin = "ui"
  /\ error = None /\ response = None

\* C22: a search that handleSearch has started (loading is true) leads to a
\* state with loading false and exactly one of response and error set, when
\* every awaited call settles.
C22_SearchEventuallyEnds ==
  loading ~> (~loading /\ uiPc = "idle" /\ ((response # None) # (error # None)))

\* a search has ended on a failure path
C22_Witness ==
  /\ ~loading /\ uiPc = "idle" /\ lastSubmit = "accepted" /\ searchWebCalls = 1
  /\ error # None /\ response = None
  /\ received # None /\ received[1].cause # None

\* C23: a request that POST has taken is either at the backend or answered,
\* never both; its answer is one JSON response with status 200, 400 or 500; a
\* response that is not 200 carries an error and no answer; and a 200 follows
\* only a backend reply from which the generation call returned.
C23_PostAlwaysAnswersInJson ==
  /\ routeReq # None => ((apiResponse # None) # (routePc = "chat"))
  /\ apiResponse # None =>
       /\ routeReq # None /\ apiResponse[1].origin = routeReq[1].origin
       /\ chatRequest = None
       /\ apiResponse[1].status \in {200, 400, 500}
       /\ IF apiResponse[1].status = 200
            THEN /\ apiResponse[1].error = <<>>
                 /\ genRequests = 1 /\ lastReply # None
                 /\ ~chat(lastReply[1]).threw
                 /\ apiResponse[1].answer = JSONProperty(chat(lastReply[1]).content)
            ELSE /\ apiResponse[1].error # <<>>
                 /\ apiResponse[1].answer = Undefined
       /\ routeReq[1].malformed => apiResponse[1].status = 500
       /\ (lastReply # None /\ chat(lastReply[1]).threw) => apiResponse[1].status = 500

\* a list that is no list has been answered with 500 and the TypeError's message
C23_Witness ==
  /\ apiResponse # None /\ routeReq # None
  /\ routeReq[1].searchResults = Str(<<"not a list">>)
  /\ apiResponse[1].status = 500
  /\ apiResponse[1].error = <<"searchResults.map is not a function">>

\* the request POST has taken lacks its query or its searchResults
PostOfMissingInput ==
  /\ routeReq # None /\ ~routeReq[1].malformed
  /\ \/ routeReq[1].query \in {Undefined, Str(<<>>)}
     \/ routeReq[1].searchResults = Undefined

\* C24: a request without query or without searchResults is answered 400
\* 'Query and search results are required' whatever the configured credential
\* is, with no call of getOpenRouterClient and no request to the backend.
C24_InputCheckPrecedesClient ==
  PostOfMissingInput =>
    /\ apiResponse # None
    /\ apiResponse[1].status = 400
    /\ apiResponse[1].error = <<"Query and search results are required">>
    /\ clientCalls = 0 /\ genRequests = 0
    /\ routePc = "idle" /\ chatRequest = None /\ lastReply = None

\* the list is missing, no credential is configured and no client exists: the
\* answer is the 400 of the input check, not the 500 of the missing credential
C24_Witness ==
  /\ PostOfMissingInput /\ apiResponse # None /\ apiResponse[1].status = 400
  /\ routeReq[1].query = Str(<<"why">>)
  /\ envKey = Undefined /\ openRouterClient = None

\* C25: after a reply of /api/synthesize that is not ok, the error the page
\* stores is 'API error: ' followed by the reply's status, whatever error the
\* reply's body carries.
C25_ErrorIsStatusAlone ==
  (received # None /\ received[1].reply.status # 200) =>
    /\ error = Some(<<"API error: ", ToString(received[1].reply.status)>>)
    /\ response = None
    /\ received[1].reply.status = 500 => error = Some(<<"API error: ", "500">>)

\* the body named the missing credential; the page stored the status
C25_Witness ==
  /\ received # None /\ received[1].reply.status = 500
  /\ received[1].reply.error = <<"OpenRouter ", "API key not configured">>
  /\ error = Some(<<"API error: ", "500">>)

\* C26: a question that handleSearch refuses (empty after trim) is refused by
\* POST /api/synthesize too: the request is answered 400 and nothing is sent to
\* the backend.
C26_UiRejectedIsApiRejected ==
  (routeReq # None /\ ~routeReq[1].malformed
     /\ routeReq[1].query.t = "string" /\ HandleSearchIgnores(routeReq[1].query.v)) =>
    /\ apiResponse # None /\ apiResponse[1].status = 400
    /\ genRequests = 0 /\ chatRequest = None

\* C27: for the question a search was started with, searchWeb returns a list
\* that is not empty: exactly the two generic results built from the question
\* when no keyword of the table occurs in it, and no generic result otherwise.
C27_NeverEmptyGenericOnlyWithoutMatch ==
  (lastSubmit = "accepted" /\ uiPc # "searching") =>
    LET found == searchWeb(query)
    IN  /\ ~found.threw
        /\ Len(found.results) >= 1
        /\ IF Mentioned = {}
             THEN found.results = GenericResults(query) /\ Len(found.results) = 2
             ELSE \A k \in 1..Len(found.results) : Rank(found.results[k]) > 0

\* C28: in what searchWeb returns, totalResults is the number of merged results
\* before the truncation and results holds min(10, totalResults) of them, so
\* never more than totalResults.  The table gives at most five merged results;
\* the return of merged lists of up to twelve results is checked beside it.
C28_TotalResultsCountsBeforeTruncation ==
  /\ (searchResults # None /\ ~searchResults[1].threw) =>
       LET merged == IF Mentioned = {} THEN GenericResults(query)
                     ELSE ConcatOfMentioned(Len(mockSearchResults))
       IN  /\ searchResults[1].totalResults = Len(merged)
           /\ Len(searchResults[1].results) = Min(10, searchResults[1].totalResults)
           /\ Len(searchResults[1].results) <= searchResults[1].totalResults
  /\ \A n \in 0..12 :
       LET merged == [k \in 1..n |-> AIResults[1 + (k % 2)]]
           found == SearchWebReturn(merged)
       IN  /\ found.totalResults = n
           /\ Len(found.results) = Min(10, n)
           /\ Len(found.results) <= found.totalResults

\* three merged results, three returned and counted
C28_Witness ==
  /\ searchResults # None /\ ~searchResults[1].threw
  /\ Mentioned = {1}
  /\ searchResults[1].totalResults = 3 /\ Len(searchResults[1].results) = 3

====
